---- MODULE Spec2Model ----
(***************************************************************************)
(* Model of main_app.py: the inventory web application over the single     *)
(* relation `produkter`, its tag normaliser (parse_tags) and its barcode   *)
(* artifact resolver (save_barcode_simple).                                *)
(*                                                                         *)
(* Text is modelled as a sequence of one-character strings, so that        *)
(* strip(), lower(), split(',') and the isdigit() filter are computed      *)
(* character by character as Python computes them.                         *)
(***************************************************************************)
EXTENDS Integers, Sequences, FiniteSets, TLC

VARIABLES
    produkter,      \* the relation: product_id -> row (DOMAIN = ids present)
    next_id,        \* next value of the product_id sequence
    ENABLE_CAMERA,  \* the process-wide camera flag, read once at start
    inflight,       \* edit POSTs between their SELECT and their UPDATE
    request,        \* the request handled last: its route and its inputs
    response,       \* the response of the request handled last
    barcodes,       \* static/barcodes: the set of artifact file names on disk
    renders,        \* file name -> number of times EAN13(...).save wrote it
    ret,            \* the last save_barcode_simple call: its input and result
    returned,       \* input -> what save_barcode_simple last returned for it
    tags_call,      \* the last parse_tags call: its input and result
    sessions,       \* concurrent qty/add requests: each one's open transaction
    stock0          \* product_id -> stock_qty before the concurrent requests

vars == <<produkter, next_id, ENABLE_CAMERA, inflight, request, response,
          barcodes, renders, ret, returned, tags_call, sessions, stock0>>

appVars == <<produkter, next_id, ENABLE_CAMERA, inflight, request, response>>
fsVars == <<barcodes, renders, ret, returned>>
txVars == <<sessions, stock0>>

-----------------------------------------------------------------------------
(* Bounds of the model.                                                    *)

MaxLen == 4        \* longest generated raw tag text in SpecTags
MaxId == 2         \* product ids handed out by the sequence
MaxQty == 2        \* |stock_qty| is kept within this
MaxInFlight == 1   \* concurrent edit POSTs between SELECT and UPDATE

-----------------------------------------------------------------------------
(* Python values.                                                          *)

\* None where a str is expected (a text is a sequence of 1-character strings,
\* so this 4-character element can never be produced by any text operation).
None == <<"None">>

\* None where a list[str] is expected.
NoneList == <<None>>

Min(S) == CHOOSE x \in S : \A y \in S : x <= y
Max(S) == CHOOSE x \in S : \A y \in S : x >= y

\* str.isdigit() on one character (ASCII digits).
IsDigit(ch) == ch \in {"0", "1", "2", "3", "4", "5", "6", "7", "8", "9"}

\* the characters str.strip() removes
IsSpace(ch) == ch \in {" ", "\t", "\n"}

\* str.lower() on one character, for the letters the inputs use
LowerChar(ch) ==
    CASE ch = "A" -> "a"
      [] ch = "B" -> "b"
      [] ch = "C" -> "c"
      [] ch = "L" -> "l"
      [] ch = "O" -> "o"
      [] OTHER -> ch

\* s.strip()
strip(s) ==
    LET keep == {i \in 1..Len(s) : ~IsSpace(s[i])}
    IN  IF keep = {} THEN <<>> ELSE SubSeq(s, Min(keep), Max(keep))

\* s.lower()
lower(s) == [i \in 1..Len(s) |-> LowerChar(s[i])]

\* ''.join(ch for ch in s if ch.isdigit())
digits_only(s) == SelectSeq(s, IsDigit)

\* s.split(sep): always at least one piece; "".split(",") = [""]
RECURSIVE split(_, _)
split(s, sep) ==
    LET at == {i \in 1..Len(s) : s[i] = sep}
    IN  IF at = {} THEN <<s>>
        ELSE <<SubSeq(s, 1, Min(at) - 1)>>
                 \o split(SubSeq(s, Min(at) + 1, Len(s)), sep)

\* list(dict.fromkeys(xs)): insert the keys in order, a key already present
\* keeps its first position
RECURSIVE fromkeys(_, _)
fromkeys(xs, acc) ==
    IF xs = <<>> THEN acc
    ELSE fromkeys(Tail(xs),
                  IF \E i \in 1..Len(acc) : acc[i] = Head(xs)
                  THEN acc ELSE Append(acc, Head(xs)))

\* [t.strip().lower() for t in raw.split(',') if t.strip()]
NormalizedTokens(raw) ==
    LET parts == split(raw, ",")
        kept == SelectSeq(parts, LAMBDA t : strip(t) # <<>>)
    IN  [i \in 1..Len(kept) |-> lower(strip(kept[i]))]

parse_tags_dup(raw) ==
    IF raw = None THEN NoneList ELSE NormalizedTokens(raw)

\* def parse_tags(raw)
parse_tags(raw) ==
    IF raw = None THEN NoneList
    ELSE fromkeys(NormalizedTokens(raw), <<>>)

-----------------------------------------------------------------------------
(* SpecTags: parse_tags applied to every raw text up to MaxLen characters   *)
(* over TagAlphabet, to None, and to the documented examples.              *)

TagAlphabet == {"a", "A", "b", " ", ","}

RECURSIVE TextsUpTo(_, _)
TextsUpTo(n, alphabet) ==
    IF n = 0 THEN {<<>>}
    ELSE LET shorter == TextsUpTo(n - 1, alphabet)
         IN  shorter \cup {Append(s, c) : s \in shorter, c \in alphabet}

\* "Cola, cola, 1.5L"
ExampleCola == <<"C","o","l","a",","," ","c","o","l","a",","," ","1",".","5","L">>
\* 'sodavand, 1.5L, Cola' from the docstring, shortened to 'so, 1.5L, Cola'
ExampleDoc == <<"s","o",","," ","1",".","5","L",","," ","C","o","l","a">>

TagInputs == TextsUpTo(MaxLen, TagAlphabet) \cup {None, ExampleCola, ExampleDoc}

NoCall == [raw |-> None, out |-> NoneList, done |-> FALSE]

\* the call parse_tags(raw) of the pending input returns
CallParseTags ==
    /\ ~tags_call.done
    /\ tags_call' = [raw |-> tags_call.raw, out |-> parse_tags(tags_call.raw),
                     done |-> TRUE]
    /\ UNCHANGED <<appVars, fsVars, txVars>>

InitTags ==
    /\ tags_call = NoCall

-----------------------------------------------------------------------------
(* save_barcode_simple: the barcode artifact resolver.                     *)

\* the least number of digits of an EAN-13 payload (len(clean) < 12)
MinDigits == 12

\* s.replace(".", "")
remove_dots(s) == SelectSeq(s, LAMBDA ch : ch # ".")

\* clean = str(ean_number).strip().replace(".", ""), then the isdigit() filter
CleanCode(ean_number) == digits_only(remove_dots(strip(ean_number)))

BaseName_first12(clean) == <<"barcode ">> \o SubSeq(clean, 1, MinDigits)

\* base = f"barcode {clean}"
BaseName(clean) == <<"barcode ">> \o clean

\* the file python-barcode's ImageWriter writes for save(out_dir/base)
PngName(clean) == BaseName(clean) \o <<".png">>

\* f"barcodes/{base}.png"
RelPath(clean) == <<"barcodes/">> \o PngName(clean)

\* data12 = clean[:12]
Data12(clean) == SubSeq(clean, 1, Min({MinDigits, Len(clean)}))

Exists_never(name) == FALSE

\* os.path.exists(png_path)
Exists(name) == name \in DOMAIN barcodes

RenderCount(name) == IF name \in DOMAIN renders THEN renders[name] ELSE 0

\* save_barcode_simple(ean_number): what one call does to static/barcodes
\* and what it returns
SaveBarcode(ean_number) ==
    LET clean == CleanCode(ean_number)
        name == PngName(clean)
    IN  /\ IF Len(clean) < MinDigits
           THEN /\ ret' = [arg |-> ean_number, path |-> None, rendered |-> FALSE]
                /\ UNCHANGED <<barcodes, renders>>
           ELSE IF Exists(name)
           THEN /\ ret' = [arg |-> ean_number, path |-> RelPath(clean),
                           rendered |-> FALSE]
                /\ UNCHANGED <<barcodes, renders>>
           ELSE /\ barcodes' = (name :> Data12(clean)) @@ barcodes
                /\ renders' = (name :> RenderCount(name) + 1) @@ renders
                /\ ret' = [arg |-> ean_number, path |-> RelPath(clean),
                           rendered |-> TRUE]
        /\ returned' = (ean_number :> ret'.path) @@ returned

\* One call of save_barcode_simple(ean_number).
save_barcode_simple(ean_number) ==
    /\ SaveBarcode(ean_number)
    /\ UNCHANGED <<appVars, tags_call, txVars>>

\* "570123456789"
Code12 == <<"5","7","0","1","2","3","4","5","6","7","8","9">>
\* "4006381333931"
CodeB13 == <<"4","0","0","6","3","8","1","3","3","3","9","3","1">>

RawCodes ==
    { Code12,                                   \* 12 digits
      Code12 \o <<"0">>,                        \* the same and a 13th digit
      Code12 \o <<"5">>,                        \* the same and another 13th
      <<"5","7","0","1","-","2","3","4","5","-","6","7","8","9">>,
      <<" ","5",".","7","0","1","2","3","4">> \o <<"5","6","7","8","9","0"," ">>,
      CodeB13,
      SubSeq(Code12, 1, 11),                    \* 11 digits: too short
      <<"1","2","3","4","5">>,                  \* "12345"
      <<>> }

NoFiles == [n \in {} |-> <<>>]
NoRenders == [n \in {} |-> 0]
NoReturns == [r \in {} |-> None]
NoRet == [arg |-> <<>>, path |-> None, rendered |-> FALSE]

InitFs ==
    /\ barcodes = NoFiles
    /\ renders = NoRenders
    /\ ret = NoRet
    /\ returned = NoReturns

-----------------------------------------------------------------------------
(* The relation produkter and the request handlers.                        *)

Ids == 1..MaxId

\* stock_qty of a row the INSERT of products_create adds: the INSERT names no
\* stock_qty, so the column default applies
DefaultStockQty == 0

NoRows == [i \in {} |-> 0]

\* the response of a handler: the template rendered (or the redirect target),
\* the product id it carries, whether an error message is embedded, and
\* whether a row read from the relation is shown
Resp(h, pg, id, err, shown) ==
    [handler |-> h, page |-> pg, product_id |-> id, error |-> err, found |-> shown]

\* an exception no handler catches: Flask answers 500
Fault(h, id) == Resp(h, "500", id, TRUE, FALSE)

\* the request a handler serves: the route's product id (0 when it has none),
\* the method, the numeric form field and the form of texts it carries
NoForm ==
    [product_ean |-> None, product_name |-> None, product_desc |-> None,
     product_image |-> None, tags |-> None]

Req(h, id, method, field, form) ==
    [handler |-> h, product_id |-> id, method |-> method, field |-> field,
     form |-> form]

\* how one database round trip ends: "error" when get_db_connection(),
\* cur.execute() or conn.commit() raises, so that the commit is not done
DbOutcomes == {"ok", "error"}

Restrict(f, S) == [x \in S |-> f[x]]

InRange(q) == -MaxQty <= q /\ q <= MaxQty

\* a form field holding a number: absent, not a number, or the text of n
Absent == [kind |-> "absent", val |-> 0]
NotANumber == [kind |-> "bad", val |-> 0]
IntText(n) == [kind |-> "int", val |-> n]

\* the decimal digit of a one-digit number
IntDigit(n) ==
    CASE n = 0 -> "0" [] n = 1 -> "1" [] n = 2 -> "2" [] n = 3 -> "3"
      [] n = 4 -> "4" [] n = 5 -> "5" [] n = 6 -> "6" [] n = 7 -> "7"
      [] n = 8 -> "8" [] OTHER -> "9"

\* try: int(request.form.get(name, default)) except ValueError: onerror
IntField(field, default, onerror) ==
    CASE field.kind = "absent" -> default
      [] field.kind = "bad" -> onerror
      [] OTHER -> field.val

\* request.form.get(name) or ''
OrEmpty(field) == IF field = None THEN <<>> ELSE field

Rollback_partial(before, uncommitted) == uncommitted

\* an exception before conn.commit(): the connection is dropped with its
\* transaction open, so nothing of it is applied
Rollback(before, uncommitted) == before

AddQty_floor(stock_qty, delta) ==
    IF stock_qty + delta < 0 THEN 0 ELSE stock_qty + delta

\* SET stock_qty = stock_qty + %s
AddQty(stock_qty, delta) == stock_qty + delta

ClampQty_none(new_qty) == new_qty

\* if new_qty < 0: new_qty = 0
ClampQty(new_qty) == IF new_qty < 0 THEN 0 ELSE new_qty

\* POST /products/<id>/qty/add
products_qty_add(product_id, field, db) ==
    LET delta == IntField(field, 1, 0)
        updated == IF product_id \in DOMAIN produkter
                   THEN [produkter EXCEPT
                           ![product_id].stock_qty = AddQty(@, delta)]
                   ELSE produkter
    IN  /\ db = "ok" => \A i \in DOMAIN updated : InRange(updated[i].stock_qty)
        /\ IF db = "ok"
           THEN /\ produkter' = updated
                /\ response' = Resp("products_qty_add", "redirect:products_detail",
                                    product_id, FALSE, FALSE)
           ELSE /\ produkter' = Rollback(produkter, updated)
                /\ response' = Resp("products_qty_add", "product_detail.html",
                                    product_id, TRUE, FALSE)
        /\ request' = Req("products_qty_add", product_id, "POST", field, NoForm)
        /\ UNCHANGED <<next_id, ENABLE_CAMERA, inflight, fsVars, tags_call, txVars>>

\* POST /products/<id>/qty/set
products_qty_set(product_id, field, db) ==
    LET new_qty == ClampQty(IntField(field, 0, 0))
        updated == IF product_id \in DOMAIN produkter
                   THEN [produkter EXCEPT ![product_id].stock_qty = new_qty]
                   ELSE produkter
    IN  /\ db = "ok" => \A i \in DOMAIN updated : InRange(updated[i].stock_qty)
        /\ IF db = "ok"
           THEN /\ produkter' = updated
                /\ response' = Resp("products_qty_set", "redirect:products_detail",
                                    product_id, FALSE, FALSE)
           ELSE /\ produkter' = Rollback(produkter, updated)
                /\ response' = Resp("products_qty_set", "product_detail.html",
                                    product_id, TRUE, FALSE)
        /\ request' = Req("products_qty_set", product_id, "POST", field, NoForm)
        /\ UNCHANGED <<next_id, ENABLE_CAMERA, inflight, fsVars, tags_call, txVars>>

DeleteRow_all(table, product_id) == Restrict(table, {})

\* DELETE FROM produkter WHERE product_id = %s
DeleteRow(table, product_id) == Restrict(table, DOMAIN table \ {product_id})

\* POST /products/<id>/delete
products_delete(product_id, db) ==
    LET updated == DeleteRow(produkter, product_id)
    IN  /\ IF db = "ok"
           THEN /\ produkter' = updated
                /\ response' = Resp("products_delete", "redirect:products_list",
                                    product_id, FALSE, FALSE)
           ELSE /\ produkter' = Rollback(produkter, updated)
                /\ response' = Resp("products_delete", "product_detail.html",
                                    product_id, TRUE, FALSE)
        /\ request' = Req("products_delete", product_id, "POST", Absent, NoForm)
        /\ UNCHANGED <<next_id, ENABLE_CAMERA, inflight, fsVars, tags_call, txVars>>

\* GET /products/<id>
products_detail(product_id, db) ==
    /\ response' = IF db = "ok"
                   THEN Resp("products_detail", "product_detail.html", product_id,
                             FALSE, product_id \in DOMAIN produkter)
                   ELSE Resp("products_detail", "product_detail.html", product_id,
                             TRUE, FALSE)
    /\ request' = Req("products_detail", product_id, "GET", Absent, NoForm)
    /\ UNCHANGED <<produkter, next_id, ENABLE_CAMERA, inflight, fsVars, tags_call, txVars>>

\* A create form: each field is a text, or None when the form lacks it.
CreateForm(ean, name, desc, image, tags) ==
    [product_ean |-> ean, product_name |-> name, product_desc |-> desc,
     product_image |-> image, tags |-> tags]

\* An edit form (the edit handler reads no product_image field).
EditForm(ean, name, desc, tags) ==
    [product_ean |-> ean, product_name |-> name, product_desc |-> desc,
     product_image |-> None, tags |-> tags]

\* (request.form.get('product_image') or '').strip() or None
ImageParam(field) ==
    IF strip(OrEmpty(field)) = <<>> THEN None ELSE strip(OrEmpty(field))

\* tags_list = parse_tags(tags_raw) or []
TagsOrEmpty(tags_raw) ==
    IF parse_tags(tags_raw) = NoneList THEN <<>> ELSE parse_tags(tags_raw)

\* SELECT ... WHERE product_ean = %s ; the rows the unique index on
\* product_ean (named by ON CONFLICT (product_ean)) lets collide
IdsWithEan(table, ean) == {i \in DOMAIN table : table[i].product_ean = ean}

ConflictTags_overwrite(excluded, stored) == excluded

\* tags = COALESCE(NULLIF(EXCLUDED.tags, '{}'::text[]), produkter.tags)
ConflictTags(excluded, stored) == IF excluded = <<>> THEN stored ELSE excluded

ConflictImage_overwrite(excluded, stored) == excluded

\* product_image = COALESCE(EXCLUDED.product_image, produkter.product_image)
ConflictImage(excluded, stored) == IF excluded = None THEN stored ELSE excluded

\* INSERT ... ON CONFLICT (product_ean) DO UPDATE ... RETURNING product_id
\* gives the relation after the statement and the id it returns
Upsert(table, seq, ean, name, desc, image, tags) ==
    LET hit == IdsWithEan(table, ean)
    IN  IF hit # {}
        THEN LET i == CHOOSE i \in hit : TRUE
             IN  [table |-> [table EXCEPT
                     ![i].product_name = name,
                     ![i].product_desc = desc,
                     ![i].product_image = ConflictImage(image, @),
                     ![i].tags = ConflictTags(tags, @)],
                  id |-> i, seq |-> seq]
        ELSE [table |-> (seq :> [product_ean |-> ean, product_name |-> name,
                                 product_desc |-> desc, product_image |-> image,
                                 stock_qty |-> DefaultStockQty, tags |-> tags])
                          @@ table,
              id |-> seq, seq |-> seq + 1]

\* POST /products/new
products_create(form, db) ==
    LET product_ean == digits_only(strip(OrEmpty(form.product_ean)))
        product_name == strip(OrEmpty(form.product_name))
        product_desc == strip(OrEmpty(form.product_desc))
        product_image == ImageParam(form.product_image)
        tags_list == TagsOrEmpty(form.tags)
        done == Upsert(produkter, next_id, product_ean, product_name,
                       product_desc, product_image, tags_list)
    IN  /\ IF product_ean = <<>> \/ product_name = <<>>
           THEN /\ db = "ok"
                /\ response' = Resp("products_create", "product_form.html", 0,
                                    TRUE, FALSE)
                /\ UNCHANGED <<produkter, next_id>>
           ELSE IF db = "ok"
           THEN /\ done.id <= MaxId
                /\ produkter' = done.table
                /\ next_id' = done.seq
                /\ response' = Resp("products_create", "redirect:products_detail",
                                    done.id, FALSE, FALSE)
           ELSE /\ produkter' = Rollback(produkter, done.table)
                /\ next_id' = next_id
                /\ response' = Resp("products_create", "product_form.html", 0,
                                    TRUE, FALSE)
        /\ request' = Req("products_create", 0, "POST", Absent, form)
        /\ UNCHANGED <<ENABLE_CAMERA, inflight, fsVars, tags_call, txVars>>

\* GET or POST /products/<id>/edit, up to the end of its SELECT: a POST that
\* found its row goes on to the UPDATE with the tags it read
products_edit_select(product_id, method, db) ==
    /\ IF db # "ok"
       THEN /\ response' = Resp("products_edit", "product_form.html", product_id,
                                TRUE, FALSE)
            /\ UNCHANGED inflight
       ELSE IF product_id \notin DOMAIN produkter
       THEN /\ response' = Resp("products_edit", "product_form.html", product_id,
                                TRUE, FALSE)
            /\ UNCHANGED inflight
       ELSE IF method = "GET"
       THEN /\ response' = Resp("products_edit", "product_form.html", product_id,
                                FALSE, TRUE)
            /\ UNCHANGED inflight
       ELSE /\ LET e == [product_id |-> product_id,
                         tags |-> produkter[product_id].tags]
               IN  /\ e \notin inflight
                   /\ Cardinality(inflight) < MaxInFlight
                   /\ inflight' = inflight \cup {e}
            /\ response' = Resp("products_edit", "(reading the form)", product_id,
                                FALSE, TRUE)
    /\ request' = Req("products_edit", product_id, method, Absent, NoForm)
    /\ UNCHANGED <<produkter, next_id, ENABLE_CAMERA, fsVars, tags_call, txVars>>

TagsParam_cleared(tags_list, stored) == IF tags_list = NoneList THEN <<>> ELSE tags_list

\* if tags_list is None: tags_param = product['tags'] else: tags_param = tags_list
TagsParam(tags_list, stored) == IF tags_list = NoneList THEN stored ELSE tags_list

\* POST /products/<id>/edit from the form fields to the response: the UPDATE
\* of the request e that has read its row
products_edit_update(e, form, db) ==
    LET product_id == e.product_id
        product_ean == strip(OrEmpty(form.product_ean))
        product_name == strip(OrEmpty(form.product_name))
        product_desc == strip(OrEmpty(form.product_desc))
        tags_param == TagsParam(parse_tags(form.tags), e.tags)
        updated == IF product_id \in DOMAIN produkter
                   THEN [produkter EXCEPT
                           ![product_id].product_ean = product_ean,
                           ![product_id].product_name = product_name,
                           ![product_id].product_desc = product_desc,
                           ![product_id].tags = tags_param]
                   ELSE produkter
        \* the unique index on product_ean rejects a second row with this EAN
        unique_violation == /\ product_id \in DOMAIN produkter
                            /\ IdsWithEan(produkter, product_ean) \ {product_id} # {}
    IN  /\ e \in inflight
        /\ inflight' = inflight \ {e}
        /\ IF db = "ok" /\ ~unique_violation
           THEN /\ produkter' = updated
                /\ response' = Resp("products_edit", "redirect:products_detail",
                                    product_id, FALSE, FALSE)
           ELSE /\ produkter' = Rollback(produkter, updated)
                /\ response' = Resp("products_edit", "product_form.html",
                                    product_id, TRUE, TRUE)
        /\ request' = Req("products_edit", product_id, "POST", Absent, form)
        /\ UNCHANGED <<next_id, ENABLE_CAMERA, fsVars, tags_call, txVars>>

\* read_barcode_from_camera(): with the flag off it raises RuntimeError at
\* once; with the flag on it reaches cv2.VideoCapture(camera_adr), and
\* camera_adr is no name of that function or of the module: NameError.
\* No call comes to return a found_text.
read_barcode_from_camera ==
    [raises |-> IF ~ENABLE_CAMERA THEN "RuntimeError" ELSE "NameError",
     found_text |-> None]

\* capture_photo_interactive_to_static(basename): ensure_dirs(), then
\* cv2.VideoCapture(...); cv2 is imported inside read_barcode_from_camera
\* only, so it is no name of this function or of the module: NameError.
\* The flag is not read.
capture_photo_interactive_to_static == "NameError"

\* GET /products/new/scan
products_scan ==
    /\ response' = IF ~ENABLE_CAMERA
                   THEN Resp("products_scan", "redirect:products_list", 0,
                             FALSE, FALSE)
                   ELSE IF read_barcode_from_camera.raises
                             \in {"RuntimeError", "NameError"}
                   THEN Fault("products_scan", 0)
                   ELSE Resp("products_scan", "product_form.html", 0, TRUE, FALSE)
    /\ request' = Req("products_scan", 0, "GET", Absent, NoForm)
    /\ UNCHANGED <<produkter, next_id, ENABLE_CAMERA, inflight, fsVars, tags_call, txVars>>

\* how the try around save_barcode_simple(clean) ends: the artifact is
\* resolved, or EAN13(...).save raises and the handler passes
RenderOutcomes == {"ok", "error"}

\* GET /products/scan-increment?delta=...
products_scan_increment(field, render, db) ==
    LET delta == IntField(field, 1, 1)
        scan == read_barcode_from_camera
        ean == scan.found_text
        clean == digits_only(OrEmpty(ean))
        hit == IdsWithEan(produkter, clean)
        pid == CHOOSE i \in hit : TRUE
        updated == [produkter EXCEPT ![pid].stock_qty = AddQty(@, delta)]
        toList == Resp("products_scan_increment", "redirect:products_list",
                       0, FALSE, FALSE)
    IN  /\ request' = Req("products_scan_increment", 0, "GET", field, NoForm)
        /\ IF ~ENABLE_CAMERA
           THEN /\ response' = toList
                /\ UNCHANGED <<produkter, fsVars>>
           ELSE IF scan.raises \in {"RuntimeError", "NameError"}
           THEN /\ response' = Fault("products_scan_increment", 0)
                /\ UNCHANGED <<produkter, fsVars>>
           ELSE IF OrEmpty(ean) = <<>> \/ Len(clean) < MinDigits
           THEN /\ response' = toList
                /\ UNCHANGED <<produkter, fsVars>>
           ELSE /\ IF render = "ok" THEN SaveBarcode(clean) ELSE UNCHANGED fsVars
                /\ IF db # "ok"
                   THEN /\ produkter' = produkter
                        /\ response' = toList
                   ELSE IF hit # {}
                   THEN /\ InRange(updated[pid].stock_qty)
                        /\ produkter' = updated
                        /\ response' = Resp("products_scan_increment",
                                            "redirect:products_detail", pid,
                                            FALSE, FALSE)
                   ELSE /\ produkter' = produkter
                        /\ response' = Resp("products_scan_increment",
                                            "redirect:products_create", 0,
                                            FALSE, FALSE)
        /\ UNCHANGED <<next_id, ENABLE_CAMERA, inflight, tags_call, txVars>>

\* GET /products/<id>/photo
products_photo_edit(product_id, db) ==
    /\ response' = IF db # "ok"
                   THEN Resp("products_photo_edit", "product_detail.html",
                             product_id, TRUE, FALSE)
                   ELSE IF capture_photo_interactive_to_static = "NameError"
                   THEN Fault("products_photo_edit", product_id)
                   ELSE Resp("products_photo_edit", "product_detail.html",
                             product_id, TRUE, FALSE)
    /\ request' = Req("products_photo_edit", product_id, "GET", Absent, NoForm)
    /\ UNCHANGED <<produkter, next_id, ENABLE_CAMERA, inflight, fsVars, tags_call, txVars>>

\* GET /products/new/photo?ean=...
products_photo_new(ean_arg) ==
    /\ response' = IF strip(OrEmpty(ean_arg)) = <<>>
                   THEN Resp("products_photo_new", "product_form.html", 0,
                             TRUE, FALSE)
                   ELSE IF capture_photo_interactive_to_static = "NameError"
                   THEN Fault("products_photo_new", 0)
                   ELSE Resp("products_photo_new", "product_form.html", 0,
                             TRUE, FALSE)
    /\ request' = Req("products_photo_new", 0, "GET", Absent,
                       [NoForm EXCEPT !.product_ean = ean_arg])
    /\ UNCHANGED <<produkter, next_id, ENABLE_CAMERA, inflight, fsVars, tags_call, txVars>>

-----------------------------------------------------------------------------
(* Two qty/add requests served at the same time, statement by statement.   *)
(* Each request runs products_qty_add on a connection of its own:          *)
(* get_db_connection(), one UPDATE, conn.commit(). The UPDATE computes     *)
(* stock_qty + delta inside the database, on the row as last committed,    *)
(* and PostgreSQL holds the row it wrote locked until the transaction      *)
(* ends: a second UPDATE of that row waits for the first one's commit.     *)

\* the requests of products_qty_add served concurrently
Sessions == {"r1", "r2"}

Idle ==
    [pc |-> "idle", product_id |-> 0, delta |-> 0, written |-> 0,
     overlap |-> FALSE]

\* the requests that hold a connection: past get_db_connection(), not yet
\* past conn.commit()
Open(ss) == {t \in DOMAIN ss : ss[t].pc \in {"connected", "updated"}}

RowLocked_never(ss, t, product_id) == FALSE

\* UPDATE produkter SET ... WHERE product_id = %s finds the row written by
\* another transaction that has not committed yet, and waits
RowLocked(ss, t, product_id) ==
    \E u \in DOMAIN ss \ {t} :
        ss[u].pc = "updated" /\ ss[u].product_id = product_id

\* the except branch of products_qty_add: the transaction is dropped
QtyAddFailed(t) ==
    /\ sessions' = [sessions EXCEPT ![t].pc = "failed"]
    /\ response' = Resp("products_qty_add", "product_detail.html",
                        sessions[t].product_id, TRUE, FALSE)

\* delta = int(request.form.get('delta', 1)); conn = get_db_connection()
QtyAddConnect(t, product_id, field, db) ==
    /\ sessions[t].pc = "idle"
    /\ request' = Req("products_qty_add", product_id, "POST", field, NoForm)
    /\ LET began == [Idle EXCEPT !.product_id = product_id,
                                 !.delta = IntField(field, 1, 0),
                                 !.overlap = Open(sessions) # {}]
       IN  IF db = "ok"
           THEN /\ sessions' = [sessions EXCEPT
                                  ![t] = [began EXCEPT !.pc = "connected"]]
                /\ UNCHANGED response
           ELSE /\ sessions' = [sessions EXCEPT
                                  ![t] = [began EXCEPT !.pc = "failed"]]
                /\ response' = Resp("products_qty_add", "product_detail.html",
                                    product_id, TRUE, FALSE)
    /\ UNCHANGED <<produkter, next_id, ENABLE_CAMERA, inflight, fsVars,
                   tags_call, stock0>>

\* cur.execute("UPDATE produkter SET stock_qty = stock_qty + %s WHERE
\* product_id = %s"): the new value is written in the open transaction
QtyAddExecute(t, db) ==
    LET product_id == sessions[t].product_id
    IN  /\ sessions[t].pc = "connected"
        /\ ~RowLocked(sessions, t, product_id)
        /\ IF db = "ok"
           THEN /\ sessions' = [sessions EXCEPT
                     ![t].pc = "updated",
                     ![t].written = IF product_id \in DOMAIN produkter
                                    THEN AddQty(produkter[product_id].stock_qty,
                                                sessions[t].delta)
                                    ELSE 0]
                /\ UNCHANGED response
           ELSE QtyAddFailed(t)
        /\ UNCHANGED <<produkter, next_id, ENABLE_CAMERA, inflight, request,
                       fsVars, tags_call, stock0>>

\* conn.commit(), then the redirect to the detail page
QtyAddCommit(t, db) ==
    LET product_id == sessions[t].product_id
        updated == IF product_id \in DOMAIN produkter
                   THEN [produkter EXCEPT
                           ![product_id].stock_qty = sessions[t].written]
                   ELSE produkter
    IN  /\ sessions[t].pc = "updated"
        /\ IF db = "ok"
           THEN /\ produkter' = updated
                /\ sessions' = [sessions EXCEPT ![t].pc = "committed"]
                /\ response' = Resp("products_qty_add", "redirect:products_detail",
                                    product_id, FALSE, FALSE)
           ELSE /\ produkter' = Rollback(produkter, updated)
                /\ QtyAddFailed(t)
        /\ UNCHANGED <<next_id, ENABLE_CAMERA, inflight, request, fsVars,
                       tags_call, stock0>>

InitTx ==
    /\ sessions = [t \in Sessions |-> Idle]
    /\ stock0 = NoRows

-----------------------------------------------------------------------------
(* Request inputs.                                                         *)

T12 == <<"1", "2">>
T1d2 == <<"1", "-", "2">>
T34s == <<" ", "3", "4", " ">>
Ta == <<" ", "a", " ">>
Tb == <<"b">>
Td == <<" ", "d">>
Ti == <<"i">>
Tj == <<"j">>
Blank == <<" ">>
TagsAB == <<"a", ",", "B", ",", "a">>
TagsA == <<"A">>
TagsBlank == <<" ", ",", " ">>

\* the menu of SpecForms: two forms collide on EAN 12 after cleaning
CreateForms ==
    { CreateForm(T12, Ta, <<>>, None, TagsBlank),
      CreateForm(T1d2, Tb, Td, Ti, TagsAB),
      CreateForm(T12, Ta, <<>>, Tj, TagsA),
      CreateForm(T34s, Tb, <<>>, Blank, None),
      CreateForm(<<"x">>, Ta, <<>>, None, None),
      CreateForm(T12, Blank, Td, None, None) }

\* tags omitted, tags blank, tags given
EditForms ==
    { EditForm(T12, Ta, <<>>, None),
      EditForm(T12, Tb, Td, TagsBlank),
      EditForm(T34s, Tb, <<>>, TagsA) }

\* the menu of Spec: two products, no tags, no image
CreateFormsPlain ==
    { CreateForm(T12, Ta, <<>>, None, TagsBlank),
      CreateForm(T34s, Tb, <<>>, Blank, None),
      CreateForm(<<"x">>, Ta, <<>>, None, None),
      CreateForm(T12, Blank, Td, None, None) }

EditFormsPlain == { EditForm(T12, Ta, <<>>, None) }

\* the menu of SpecEan: an EAN of digits, one with a dash, a blank one
EditFormsEan ==
    { EditForm(T34s, Ta, <<>>, None),
      EditForm(T1d2, Ta, <<>>, None),
      EditForm(Blank, Tb, <<>>, None) }

DeltaFields == {Absent, NotANumber} \cup {IntText(n) : n \in -MaxQty..MaxQty}
QtyFields == {Absent, NotANumber} \cup {IntText(n) : n \in (-MaxQty - 1)..MaxQty}
EanArgs == {None, T12}

-----------------------------------------------------------------------------
(* The specifications.                                                     *)

InitApp ==
    /\ produkter = NoRows
    /\ next_id = 1
    /\ ENABLE_CAMERA \in BOOLEAN
    /\ inflight = {}
    /\ request = Req("(start)", 0, "GET", Absent, NoForm)
    /\ response = Resp("(start)", "(none)", 0, FALSE, FALSE)

Init == InitApp /\ InitFs /\ InitTags /\ InitTx

\* One request, its inputs drawn from a menu of form contents.
QtyAdd(D) == \E i \in Ids, f \in D, db \in DbOutcomes : products_qty_add(i, f, db)
QtySet(Q) == \E i \in Ids, f \in Q, db \in DbOutcomes : products_qty_set(i, f, db)
Delete == \E i \in Ids, db \in DbOutcomes : products_delete(i, db)
Detail == \E i \in Ids, db \in DbOutcomes : products_detail(i, db)
Create(C) == \E f \in C, db \in DbOutcomes : products_create(f, db)
EditSelect ==
    \E i \in Ids, m \in {"GET", "POST"}, db \in DbOutcomes :
        products_edit_select(i, m, db)
EditUpdate(E) ==
    \E e \in inflight, f \in E, db \in DbOutcomes :
        products_edit_update(e, f, db)
Scan == products_scan
ScanIncrement(D) ==
    \E f \in D, r \in RenderOutcomes, db \in DbOutcomes :
        products_scan_increment(f, r, db)
PhotoEdit == \E i \in Ids, db \in DbOutcomes : products_photo_edit(i, db)
PhotoNew == \E a \in EanArgs : products_photo_new(a)

Requests(C, E, D, Q) ==
    \/ QtyAdd(D)
    \/ QtySet(Q)
    \/ Delete
    \/ Detail
    \/ Create(C)
    \/ EditSelect
    \/ EditUpdate(E)
    \/ Scan
    \/ ScanIncrement(D)
    \/ PhotoEdit
    \/ PhotoNew

Next == Requests(CreateFormsPlain, EditFormsPlain, DeltaFields, QtyFields)

Spec == Init /\ [][Next]_vars

\* The requests that write the text columns, with the richer menu of forms.
NextForms ==
    \/ Create(CreateForms)
    \/ EditSelect
    \/ EditUpdate(EditForms)
    \/ QtyAdd({Absent})
    \/ Delete

InitForms ==
    /\ Init
    /\ ENABLE_CAMERA = FALSE

SpecForms == InitForms /\ [][NextForms]_vars

Resolve == \E r \in RawCodes : save_barcode_simple(r)

InitResolver ==
    /\ Init
    /\ ENABLE_CAMERA = FALSE

SpecResolver == InitResolver /\ [][Resolve]_vars

InitTagsInput ==
    /\ InitApp
    /\ ENABLE_CAMERA = FALSE
    /\ InitFs
    /\ InitTx
    /\ tags_call \in {[raw |-> r, out |-> NoneList, done |-> FALSE] : r \in TagInputs}

SpecTags == InitTagsInput /\ [][CallParseTags]_vars

\* Two products in stock and the concurrent qty/add requests on them.
StockedRow(ean, name, stock_qty) ==
    [product_ean |-> ean, product_name |-> name, product_desc |-> <<>>,
     product_image |-> None, stock_qty |-> stock_qty, tags |-> <<>>]

StartStock == {-1, 0, 1}

InitQty ==
    /\ \E q \in [Ids -> StartStock] :
          /\ produkter = [i \in Ids |-> StockedRow(<<IntDigit(i)>>, Tb, q[i])]
          /\ stock0 = q
    /\ next_id = MaxId + 1
    /\ ENABLE_CAMERA = FALSE
    /\ inflight = {}
    /\ request = Req("(start)", 0, "GET", Absent, NoForm)
    /\ response = Resp("(start)", "(none)", 0, FALSE, FALSE)
    /\ sessions = [t \in Sessions |-> Idle]
    /\ InitFs
    /\ InitTags

Connect ==
    \E t \in Sessions, i \in Ids, f \in DeltaFields, db \in DbOutcomes :
        QtyAddConnect(t, i, f, db)
Execute == \E t \in Sessions, db \in DbOutcomes : QtyAddExecute(t, db)
Commit == \E t \in Sessions, db \in DbOutcomes : QtyAddCommit(t, db)

NextQty ==
    \/ Connect
    \/ Execute
    \/ Commit

SpecQty == InitQty /\ [][NextQty]_vars


\* Every route, with EANs of every shape in the edit forms.
NextEan == Requests(CreateFormsPlain, EditFormsEan, {Absent}, {Absent})

SpecEan == Init /\ [][NextEan]_vars

-----------------------------------------------------------------------------
(* The properties checked.                                                 *)

\* the request just served was answered by a redirect to the detail page
RedirectedToDetail(h) ==
    /\ request'.handler = h
    /\ response'.handler = h
    /\ response'.page = "redirect:products_detail"

\* every row but row i is as it was
OthersUnchanged(i) ==
    /\ DOMAIN produkter' \ {i} = DOMAIN produkter \ {i}
    /\ \A j \in DOMAIN produkter \ {i} : produkter'[j] = produkter[j]

\* C1: a POST /products/<id>/qty/set that succeeds on an existing product with
\* the integer qty leaves its stock_qty at max(qty, 0), whatever it was, and
\* changes no other product.
C1_QtySetClamps ==
    [][(/\ RedirectedToDetail("products_qty_set")
        /\ request'.field.kind = "int"
        /\ request'.product_id \in DOMAIN produkter)
       => LET i == request'.product_id
              qty == request'.field.val
          IN  /\ i \in DOMAIN produkter'
              /\ produkter'[i].stock_qty = Max({qty, 0})
              /\ OthersUnchanged(i)]_vars

\* C1 witness: qty/set with a negative qty has succeeded on a product, which
\* now has stock 0, beside another product whose stock is not 0.
C1_Witness ==
    /\ request.handler = "products_qty_set"
    /\ response.page = "redirect:products_detail"
    /\ request.field.kind = "int"
    /\ request.field.val < 0
    /\ request.product_id \in DOMAIN produkter
    /\ produkter[request.product_id].stock_qty = 0
    /\ \E j \in DOMAIN produkter \ {request.product_id} :
           produkter[j].stock_qty # 0

\* C2: a POST /products/<id>/qty/add that succeeds on an existing product with
\* stock_qty s and the integer delta leaves its stock_qty at s + delta, with
\* no floor at zero, and changes no other product.
C2_QtyAddNoFloor ==
    [][(/\ RedirectedToDetail("products_qty_add")
        /\ request'.field.kind = "int"
        /\ request'.product_id \in DOMAIN produkter)
       => LET i == request'.product_id
              delta == request'.field.val
          IN  /\ i \in DOMAIN produkter'
              /\ produkter'[i].stock_qty = produkter[i].stock_qty + delta
              /\ OthersUnchanged(i)]_vars

\* C2 witness: qty/add with a negative delta has succeeded and the product's
\* stock_qty is negative (so stock_qty >= 0 is no invariant).
C2_Witness ==
    /\ request.handler = "products_qty_add"
    /\ response.page = "redirect:products_detail"
    /\ request.field.kind = "int"
    /\ request.field.val < 0
    /\ request.product_id \in DOMAIN produkter
    /\ produkter[request.product_id].stock_qty < 0

\* a tags field that is present but blank: nothing but commas and whitespace
BlankTags(raw) ==
    /\ raw # None
    /\ \A k \in 1..Len(raw) : raw[k] = "," \/ IsSpace(raw[k])

\* C3: a create POST with a non-empty name whose EAN, stripped of non-digits,
\* is the product_ean of an existing product succeeds without adding a row and
\* returns that product's id; name and description are overwritten; the image
\* is kept when none is supplied and replaced otherwise; the tags are kept when
\* the normalized incoming list is empty and replaced otherwise; stock_qty and
\* every other row are unchanged.
C3_UpsertOnConflict ==
    [][LET form == request'.form
           ean == digits_only(strip(OrEmpty(form.product_ean)))
           image == strip(OrEmpty(form.product_image))
           tags == parse_tags(form.tags)
           hit == {i \in DOMAIN produkter : produkter[i].product_ean = ean}
       IN  (/\ RedirectedToDetail("products_create")
            /\ strip(OrEmpty(form.product_name)) # <<>>
            /\ ean # <<>>
            /\ hit # {})
           => /\ DOMAIN produkter' = DOMAIN produkter
              /\ next_id' = next_id
              /\ response'.product_id \in hit
              /\ LET i == response'.product_id
                     old == produkter[i]
                     new == produkter'[i]
                 IN  /\ new.product_ean = old.product_ean
                     /\ new.product_name = strip(OrEmpty(form.product_name))
                     /\ new.product_desc = strip(OrEmpty(form.product_desc))
                     /\ new.product_image =
                          IF image = <<>> THEN old.product_image ELSE image
                     /\ new.tags =
                          IF tags = NoneList \/ tags = <<>> THEN old.tags ELSE tags
                     /\ new.stock_qty = old.stock_qty
                     /\ OthersUnchanged(i)]_vars

\* C3 witness: a create that supplied no image and a blank tag list has
\* succeeded on the only row, which keeps an image, tags and a stock that no
\* such form can have given it.
C3_Witness ==
    /\ request.handler = "products_create"
    /\ response.page = "redirect:products_detail"
    /\ strip(OrEmpty(request.form.product_image)) = <<>>
    /\ BlankTags(request.form.tags)
    /\ DOMAIN produkter = {response.product_id}
    /\ next_id = 2
    /\ LET row == produkter[response.product_id]
       IN  /\ row.product_name = strip(request.form.product_name)
           /\ row.product_image # None
           /\ row.tags # <<>>
           /\ row.stock_qty # 0

\* the edit POST whose UPDATE the step performs: the pending request that
\* leaves inflight, with the tags it read at its start
EditServed == inflight \ inflight'

C4_BlankReached ==
    /\ request.handler = "products_edit"
    /\ response.page = "redirect:products_detail"
    /\ BlankTags(request.form.tags)
    /\ request.product_id \in DOMAIN produkter
    /\ produkter[request.product_id].tags = <<>>
    /\ produkter[request.product_id].product_image # None

\* the positions of the commas of a raw tag text, and its k-th comma-separated
\* piece (k = 1 .. number of commas + 1), trimmed and lower-cased
CommaAt(raw) == {k \in 1..Len(raw) : raw[k] = ","}

CommaNo(raw, n) ==
    CHOOSE c \in CommaAt(raw) : Cardinality({d \in CommaAt(raw) : d <= c}) = n

Token(raw, k) ==
    LET lo == IF k = 1 THEN 0 ELSE CommaNo(raw, k - 1)
        hi == IF k = Cardinality(CommaAt(raw)) + 1
              THEN Len(raw) + 1 ELSE CommaNo(raw, k)
    IN  lower(strip(SubSeq(raw, lo + 1, hi - 1)))

\* C5: parse_tags(None) is None; for a text it is the sequence of its
\* comma-separated tokens, trimmed and lower-cased, without the empty ones and
\* without repeats, each token at the place of its first occurrence; so
\* parse_tags("") = [] and parse_tags("Cola, cola, 1.5L") = ["cola", "1.5l"].
C5_TagNormalizer ==
    tags_call.done =>
        LET raw == tags_call.raw
            out == tags_call.out
            n == Cardinality(CommaAt(raw)) + 1
            First(t) == Min({k \in 1..n : Token(raw, k) = t})
        IN  IF raw = None THEN out = NoneList
            ELSE /\ out # NoneList
                 /\ {out[i] : i \in 1..Len(out)}
                        = {Token(raw, k) : k \in 1..n} \ {<<>>}
                 /\ \A i \in 1..Len(out) : out[i] # <<>>
                 /\ \A i, j \in 1..Len(out) :
                        i < j => /\ out[i] # out[j]
                                 /\ First(out[i]) < First(out[j])
                 /\ raw = <<>> => out = <<>>
                 /\ raw = ExampleCola
                        => out = << <<"c","o","l","a">>, <<"1",".","5","l">> >>

\* C5 witness: parse_tags("Cola, cola, 1.5L") has returned ["cola", "1.5l"].
C5_Witness ==
    /\ tags_call.done
    /\ tags_call.raw = ExampleCola
    /\ tags_call.out = << <<"c","o","l","a">>, <<"1",".","5","l">> >>

\* the digits of a raw code, in order
DigitsOf(raw) == SelectSeq(raw, LAMBDA ch : IsDigit(ch))

\* the file a returned relative path names ("barcodes/" dropped)
FileOf(path) == Tail(path)

\* C6: a call of save_barcode_simple with an input of at least 12 digits
\* returns a relative path whose file is then on disk; the call renders the
\* file when it was not on disk (the first call) and only then; a later call
\* with the same input returns the same path, renders nothing and leaves the
\* files on disk as they were; no file is rendered more than once.
C6_ResolverIdempotent ==
    [][LET raw == ret'.arg
       IN  (returned' # returned \/ ret' # ret) /\ Len(DigitsOf(raw)) >= MinDigits
           => /\ ret'.path # None
              /\ FileOf(ret'.path) \in DOMAIN barcodes'
              /\ IF FileOf(ret'.path) \in DOMAIN barcodes
                 THEN /\ ~ret'.rendered
                      /\ barcodes' = barcodes
                      /\ renders' = renders
                 ELSE /\ ret'.rendered
                      /\ DOMAIN barcodes' = DOMAIN barcodes \cup {FileOf(ret'.path)}
                      /\ renders'[FileOf(ret'.path)] = 1
              /\ raw \in DOMAIN returned
                    => /\ ret'.path = returned[raw]
                       /\ barcodes' = barcodes
                       /\ renders' = renders
              /\ \A f \in DOMAIN renders' : renders'[f] <= 1]_vars

\* C6 witness: "570123456789", the only input resolved so far, has been
\* resolved again: the call returned the path without rendering, and the
\* file has been rendered once.
C6_Witness ==
    /\ DOMAIN returned = {Code12}
    /\ ret.arg = Code12
    /\ ~ret.rendered
    /\ ret.path = returned[Code12]
    /\ ret.path # None
    /\ DOMAIN barcodes = {FileOf(ret.path)}
    /\ renders[FileOf(ret.path)] = 1

\* the inputs resolved so far that have at least 12 digits
Resolved == {r \in DOMAIN returned : Len(DigitsOf(r)) >= MinDigits}

\* C7 as claimed: the artifact is named from the first 12 digits, so two
\* inputs that agree on their first 12 digits resolve to the same path and
\* only one artifact is rendered for them.
C7_NamedFromFirstTwelve ==
    \A r1, r2 \in Resolved :
        SubSeq(DigitsOf(r1), 1, MinDigits) = SubSeq(DigitsOf(r2), 1, MinDigits)
            => /\ returned[r1] = returned[r2]
               /\ Cardinality({f \in DOMAIN barcodes :
                      barcodes[f] = SubSeq(DigitsOf(r1), 1, MinDigits)}) <= 1

\* C7 amended: the artifact is named from all the digits of the cleaned code:
\* the path is "barcodes/barcode <digits>.png", so two inputs resolve to the
\* same path exactly when their digit strings are equal; each file on disk has
\* been rendered once (a second input with the same digits rendered nothing)
\* and encodes the first 12 digits of its name.
C7_NamedFromAllDigits ==
    /\ \A r \in Resolved :
          /\ returned[r] = <<"barcodes/", "barcode ">> \o DigitsOf(r) \o <<".png">>
          /\ FileOf(returned[r]) \in DOMAIN barcodes
          /\ barcodes[FileOf(returned[r])] = SubSeq(DigitsOf(r), 1, MinDigits)
    /\ \A r1, r2 \in Resolved :
          returned[r1] = returned[r2] <=> DigitsOf(r1) = DigitsOf(r2)
    /\ \A f \in DOMAIN barcodes : f \in DOMAIN renders /\ renders[f] = 1
    /\ Cardinality(DOMAIN barcodes) = Cardinality({DigitsOf(r) : r \in Resolved})

\* C7 witness: a 12-digit payload, the same payload with a 13th digit, and
\* the 12-digit payload written with dashes have all been resolved: the first
\* two have different paths and the same encoded payload, the third has the
\* path of the first, and two files are on disk, each rendered once.
C7_Witness ==
    LET dashed == <<"5","7","0","1","-","2","3","4","5","-","6","7","8","9">>
        r13 == Code12 \o <<"0">>
    IN  /\ {Code12, r13, dashed} \subseteq DOMAIN returned
        /\ returned[Code12] # returned[r13]
        /\ returned[dashed] = returned[Code12]
        /\ barcodes[FileOf(returned[Code12])] = barcodes[FileOf(returned[r13])]
        /\ Cardinality(DOMAIN barcodes) = 2
        /\ \A f \in DOMAIN barcodes : renders[f] = 1

\* the entry points that use the camera
CameraHandlers ==
    {"products_scan", "products_scan_increment", "products_photo_edit",
     "products_photo_new"}

\* C8: with the camera flag off, every entry point that would use the camera
\* answers with a redirect to the product list and raises no error.
C8_CameraDisabledRedirects ==
    (~ENABLE_CAMERA /\ request.handler \in CameraHandlers)
        => /\ response.page = "redirect:products_list"
           /\ ~response.error

\* what holds of the two entry points that read the flag
C8_ScanRoutesRedirect ==
    (~ENABLE_CAMERA
        /\ request.handler \in {"products_scan", "products_scan_increment"})
        => /\ response.page = "redirect:products_list"
           /\ ~response.error

\* the ids the sequence has handed out that have no row any more
Deleted == {i \in 1..(next_id - 1) : i \notin DOMAIN produkter}

\* C9: the life of a product. A create whose EAN is not stored yet adds one
\* row, with stock_qty 0; qty/add with delta d takes a stock_qty s to s + d
\* (so 0 to d); qty/set with q takes it to max(q, 0); a successful delete
\* removes the row and changes no other; a deleted id stays absent for good,
\* the detail page of an absent id shows no product and its edit page reports
\* it not found.
C9_Lifecycle ==
    [][/\ LET form == request'.form
              ean == digits_only(strip(OrEmpty(form.product_ean)))
              i == response'.product_id
          IN  (/\ RedirectedToDetail("products_create")
               /\ \A j \in DOMAIN produkter : produkter[j].product_ean # ean)
              => /\ i \notin DOMAIN produkter
                 /\ i \notin Deleted
                 /\ DOMAIN produkter' = DOMAIN produkter \cup {i}
                 /\ produkter'[i].stock_qty = 0
                 /\ produkter'[i].product_ean = ean
                 /\ OthersUnchanged(i)
       /\ LET i == request'.product_id
              n == request'.field.val
          IN  /\ (/\ RedirectedToDetail("products_qty_add")
                  /\ request'.field.kind = "int"
                  /\ i \in DOMAIN produkter)
                 => /\ produkter'[i] =
                         [produkter[i] EXCEPT !.stock_qty = @ + n]
                    /\ produkter[i].stock_qty = 0 => produkter'[i].stock_qty = n
              /\ (/\ RedirectedToDetail("products_qty_set")
                  /\ request'.field.kind = "int"
                  /\ i \in DOMAIN produkter)
                 => produkter'[i] =
                        [produkter[i] EXCEPT !.stock_qty = Max({n, 0})]
              /\ (/\ request'.handler = "products_delete"
                  /\ response'.handler = "products_delete"
                  /\ response'.page = "redirect:products_list")
                 => /\ i \notin DOMAIN produkter'
                    /\ OthersUnchanged(i)
              /\ (/\ request'.handler = "products_detail"
                  /\ response'.handler = "products_detail"
                  /\ i \notin DOMAIN produkter)
                 => ~response'.found
              /\ (/\ request'.handler = "products_edit"
                  /\ response'.handler = "products_edit"
                  /\ request'.form = NoForm
                  /\ i \notin DOMAIN produkter)
                 => /\ response'.page = "product_form.html"
                    /\ response'.error
                    /\ ~response'.found
                    /\ inflight' = inflight
       /\ Deleted \subseteq Deleted'
      ]_vars

\* C9 witness: product 1 was created, restocked and deleted, and the detail
\* page then asked for it shows no product, while product 2 is still there
\* with the stock it was given.
C9_Witness ==
    /\ request.handler = "products_detail"
    /\ request.product_id = 1
    /\ 1 \in Deleted
    /\ ~response.found
    /\ ~response.error
    /\ response.page = "product_detail.html"
    /\ 2 \in DOMAIN produkter
    /\ produkter[2].stock_qty = MaxQty

\* C10: when the database call of a mutating handler fails before the commit,
\* the relation and the id sequence are as before the request, the request is
\* over (nothing of it stays pending, it is not tried again) and its response
\* is a rendered page carrying the error, not a fault.
C10_DbErrorAppliesNothing ==
    [][LET h == request'.handler
           i == request'.product_id
       IN  (\/ h = "products_qty_add"
                 /\ products_qty_add(i, request'.field, "error")
            \/ h = "products_qty_set"
                 /\ products_qty_set(i, request'.field, "error")
            \/ h = "products_delete" /\ products_delete(i, "error")
            \/ h = "products_create" /\ products_create(request'.form, "error")
            \/ h = "products_edit" /\ products_edit_select(i, "POST", "error")
            \/ h = "products_edit"
                 /\ \E e \in inflight :
                        products_edit_update(e, request'.form, "error")
            \/ h = "products_photo_edit" /\ products_photo_edit(i, "error"))
           => /\ produkter' = produkter
              /\ next_id' = next_id
              /\ IF h = "products_edit" /\ request'.form # NoForm
                 THEN inflight' \subseteq inflight /\ Cardinality(EditServed) = 1
                 ELSE inflight' = inflight
              /\ response'.error
              /\ response'.page \in {"product_detail.html", "product_form.html"}
      ]_vars

\* C10 witness: the database failed under a qty/add with a delta that is not 0
\* on a stored product: the response is the detail page with the error.
C10_Witness ==
    /\ request.handler = "products_qty_add"
    /\ request.field.kind = "int"
    /\ request.field.val # 0
    /\ request.product_id \in DOMAIN produkter
    /\ response.error
    /\ response.page = "product_detail.html"
    /\ produkter[request.product_id].stock_qty = 0

\* the concurrent qty/add requests that committed their UPDATE of product p
CommittedOn(p) ==
    {t \in Sessions : sessions[t].pc = "committed" /\ sessions[t].product_id = p}

IsDigitString(s) == s # <<>> /\ \A k \in 1..Len(s) : IsDigit(s[k])

\* C12: in every reachable state every stored product's product_ean is a
\* digit string: no row of produkter has a product_ean that is empty or
\* holds a character that is no digit.
C12_EanIsDigitString ==
    \A i \in DOMAIN produkter : IsDigitString(produkter[i].product_ean)

\* What the code does keep: a create request stores digit strings only, and
\* no request but an edit changes a stored product_ean.
C12_OnlyEditBreaksEan ==
    [][ response'.handler # "products_edit"
          => \A i \in DOMAIN produkter' :
                \/ i \in DOMAIN produkter
                     /\ produkter'[i].product_ean = produkter[i].product_ean
                \/ i \notin DOMAIN produkter
                     /\ IsDigitString(produkter'[i].product_ean) ]_vars

\* C13: with the camera enabled a scan-and-increment request ends in one of
\* three ways. It redirects to the product list and changes no row (the
\* scan returned nothing, or fewer than 12 digits); or it redirects to the
\* detail page of the product found by EAN, whose stock_qty alone has grown
\* by delta; or it redirects to the create form, no row created and no
\* quantity changed.
C13_ScanIncrementOrchestration ==
    [][ (response'.handler = "products_scan_increment" /\ ENABLE_CAMERA)
          => LET delta == IntField(request'.field, 1, 1)
                 pid == response'.product_id
             IN  \/ /\ response'.page = "redirect:products_list"
                    /\ produkter' = produkter
                 \/ /\ response'.page = "redirect:products_detail"
                    /\ pid \in DOMAIN produkter
                    /\ Len(produkter[pid].product_ean) >= MinDigits
                    /\ produkter' = [produkter EXCEPT
                                       ![pid].stock_qty = @ + delta]
                 \/ /\ response'.page = "redirect:products_create"
                    /\ produkter' = produkter
                    /\ next_id' = next_id ]_vars

\* What the code does with the camera enabled: every scan-and-increment
\* request ends in the unhandled NameError of read_barcode_from_camera, and
\* touches neither a row nor the barcode directory.
C13_ScanIncrementFaults ==
    [][ (response'.handler = "products_scan_increment" /\ ENABLE_CAMERA)
          => /\ response' = Fault("products_scan_increment", 0)
             /\ UNCHANGED <<produkter, next_id, fsVars>> ]_vars

\* the UPDATE of an edit POST that carries no tags field has committed
OmittingEditCommitted ==
    /\ response'.handler = "products_edit"
    /\ request'.method = "POST"
    /\ EditServed # {}
    /\ request'.form.tags = None
    /\ ~response'.error

\* C14: an edit request whose tags field is omitted never changes a
\* product's stored tags, whatever other requests were served between its
\* SELECT and its UPDATE: the tags another request has committed in between
\* are still the product's tags after the edit has committed.
C14_OmittedTagsNeverChange ==
    [][ OmittingEditCommitted
          => \A i \in DOMAIN produkter :
                /\ i \in DOMAIN produkter'
                /\ produkter'[i].tags = produkter[i].tags ]_vars

\* What the code does: the UPDATE of such an edit writes the tags its
\* SELECT has read, and they replace whatever is stored by then.
C14_OmittedTagsWriteSnapshot ==
    [][ OmittingEditCommitted
          => \A e \in EditServed :
                e.product_id \in DOMAIN produkter
                    => produkter'[e.product_id].tags = e.tags ]_vars

====
